---- MODULE Spec2Model ----
(***************************************************************************)
(* State-machine model of examples/pub.rs: the command interpreter         *)
(* (handle_input_line), the three inject_event handlers of MyBehaviour,    *)
(* the poll_fn driver loop of main, and the address normaliser             *)
(* (parse_legacy_multiaddr / strip_peer_id).                               *)
(*                                                                         *)
(* libp2p itself (Gossipsub, Swarm, Multiaddr) is not part of the          *)
(* repository; the few operators that stand for it are modelled from the   *)
(* contract the specification gives for them.                              *)
(***************************************************************************)
EXTENDS Naturals, Sequences, FiniteSets, Bags, TLC

\* ------------------------------------------------------------------------
\* Bounds of the model
\* ------------------------------------------------------------------------

\* Longest stdin line, in atoms ("PUB t chat" is five atoms).
MaxLineLen == 5
\* Stdin lines read over the whole run.
MaxLines == 2
\* Events the swarm stream yields to the driver over the whole run.
MaxNetEvents == 1
\* Sub-protocol events dispatched to inject_event over the whole run.
MaxInject == 2
\* Longest address text, in '/'-separated parts.
MaxParts == 5
\* Connections made with the transport.
MaxConns == 2
\* Address arguments of the process.
MaxArgs == 2

\* ------------------------------------------------------------------------
\* Input alphabets
\* ------------------------------------------------------------------------

\* A line is a sequence of atoms: a word without blanks, or one blank.
Words == {"SUB", "PUB", "chat", "t"}
LineAtoms == Words \cup {" "}

\* Two words are never adjacent: they would read as one longer word.
Lines ==
  { l \in UNION { [1..n -> LineAtoms] : n \in 0..MaxLineLen } :
      \A i \in 1..(Len(l) - 1) : l[i] = " " \/ l[i + 1] = " " }

\* The lines typed at the driver: each kind of command the interpreter tells
\* apart, on the startup topic and on another one. Lines with stray blanks
\* are applied in SpecCmd, which takes every line of Lines.
StdinLines ==
  { <<>>,
    <<"SUB">>,
    <<"SUB", " ", "chat">>,
    <<"SUB", " ", "t">>,
    <<"PUB", " ", "t">>,
    <<"PUB", " ", "t", " ", "chat">>,
    <<"PUB", " ", "chat", " ", "t">> }

Peers == {"p1"}
RemoteData == {"hi"}
ListenAddrs == {"lo", "eth0"}

\* An address text is the sequence of its '/'-separated parts: "/tcp/4001"
\* is <<"", "tcp", "4001">>.  "Qm" stands for a well-formed peer identifier,
\* "4001" for a well-formed port.
PartAtoms == {"", "tcp", "4001", "dns4", "ipfs", "p2p", "Qm"}
Texts == UNION { [1..n -> PartAtoms] : n \in 1..MaxParts }

\* ------------------------------------------------------------------------
\* Gossipsub as the interpreter and the handlers use it
\* ------------------------------------------------------------------------

\* Gossipsub::new followed by the startup subscribe to "chat".
GossipsubInit ==
  [mesh |-> {"chat"}, received |-> {}, published |-> {}]

\* Gossipsub::subscribe: true iff the topic was not subscribed before.
GossipsubSubscribe(gs, topic) ==
  [ret |-> topic \notin gs.mesh,
   gs  |-> [gs EXCEPT !.mesh = @ \cup {topic}]]

\* Gossipsub::publish: hands the message to the network and records it as
\* already seen; it produces no local event.
GossipsubPublish(gs, topic, data) ==
  LET m == [src |-> "local", topic |-> topic, data |-> data]
  IN  [gs EXCEPT !.published = @ \cup {m}, !.received = @ \cup {m}]

\* Gossipsub on an inbound message: a duplicate is dropped, a message on an
\* unsubscribed topic is recorded but not delivered, any other message is
\* delivered as one GossipsubEvent::Message.
GossipsubReceive(gs, m) ==
  [deliver |-> m \notin gs.received /\ m.topic \in gs.mesh,
   gs      |-> [gs EXCEPT !.received = @ \cup {m}]]

\* ------------------------------------------------------------------------
\* Command interpreter: handle_input_line
\* ------------------------------------------------------------------------

RECURSIVE SplitFrom(_, _, _)
SplitFrom(line, i, cur) ==
  IF i > Len(line) THEN <<cur>>
  ELSE IF line[i] = " " THEN <<cur>> \o SplitFrom(line, i + 1, "")
  ELSE SplitFrom(line, i + 1, cur \o line[i])

\* line.split(" "): one token per blank-delimited field, empty fields kept.
Split(line) == SplitFrom(line, 1, "")

\* A report that claims success whatever subscribe returned.
SubReport_AlwaysOk(x, topic) == <<"Subscribed to topic", topic>>

\* Lines 291-295: the report printed after gossipsub.subscribe returned x.
SubReport(x, topic) ==
  IF x = TRUE THEN <<"Subscribed to topic", topic>>
              ELSE <<"Failed to subscribe to topic">>

\* The SUB arm.
SubBranch(gs, args) ==
  IF Len(args) < 2
  THEN [gs |-> gs, out |-> <<>>, err |-> <<"Expected topic">>,
        cmd |-> <<"usage">>]
  ELSE LET topic == args[2]
           r     == GossipsubSubscribe(gs, topic)
       IN  [gs |-> r.gs, out |-> <<SubReport(r.ret, topic)>>, err |-> <<>>,
            cmd |-> <<"SUB", topic, r.ret>>]

\* A PUB arm that also joins the topic it publishes to.
PubBranch_Joins(gs, args) ==
  IF Len(args) < 3
  THEN [gs |-> gs, out |-> <<>>,
        err |-> <<IF Len(args) < 2 THEN "Expected topic"
                                   ELSE "Expected message">>,
        cmd |-> <<"usage">>]
  ELSE [gs  |-> GossipsubPublish(GossipsubSubscribe(gs, args[2]).gs,
                                 args[2], args[3]),
        out |-> <<>>, err |-> <<>>, cmd |-> <<"PUB", args[2], args[3]>>]

\* The PUB arm.
PubBranch(gs, args) ==
  IF Len(args) < 2
  THEN [gs |-> gs, out |-> <<>>, err |-> <<"Expected topic">>,
        cmd |-> <<"usage">>]
  ELSE IF Len(args) < 3
  THEN [gs |-> gs, out |-> <<>>, err |-> <<"Expected message">>,
        cmd |-> <<"usage">>]
  ELSE [gs  |-> GossipsubPublish(gs, args[2], args[3]),
        out |-> <<>>, err |-> <<>>, cmd |-> <<"PUB", args[2], args[3]>>]

\* handle_input_line: the new gossipsub state, what was printed to stdout
\* and to stderr, and the command that was carried out.
handle_input_line(gs, line) ==
  LET args == Split(line)
  IN  IF args[1] = "SUB" THEN SubBranch(gs, args)
      ELSE IF args[1] = "PUB" THEN PubBranch(gs, args)
      ELSE [gs |-> gs, out |-> <<>>, err |-> <<"expected PUB or SUB">>,
            cmd |-> <<"usage">>]

\* ------------------------------------------------------------------------
\* MyBehaviour: the three inject_event handlers
\* ------------------------------------------------------------------------

RemoteTopics == {"chat", "t"}

\* Messages a peer can send: its own, or one of ours relayed back.
InboundMsgs(gs) ==
  [src : Peers, topic : RemoteTopics, data : RemoteData] \cup gs.published

GossipsubEvents(m) ==
  { [type |-> "Message", peer |-> p, msg |-> m] : p \in Peers }

PingResults == {"Ping", "Pong", "Timeout", "Other"}
PingEvents == [peer : Peers, result : PingResults]

\* A handler that prints a received message twice.
InjectGossipsub_Twice(event) ==
  IF event.type = "Message"
  THEN << <<"Got message", event.msg>>, <<"Got message", event.msg>> >>
  ELSE <<>>

\* inject_event(GossipsubEvent): what is printed.
InjectGossipsub(event) ==
  IF event.type = "Message"
  THEN << <<"Got message", event.msg>> >>
  ELSE <<>>

\* inject_event(IdentifyEvent): what is printed.
InjectIdentify(event) == << <<"identify", event>> >>

\* A handler that reports a timeout as any other failure.
InjectPing_FailuresAlike(event) ==
  CASE event.result = "Ping"    -> <<>>
    [] event.result = "Pong"    -> << <<"ping: pong from", event.peer>> >>
    [] event.result = "Timeout" -> << <<"ping: failure with", event.peer>> >>
    [] event.result = "Other"   -> << <<"ping: failure with", event.peer>> >>

\* inject_event(PingEvent): what is printed.
InjectPing(event) ==
  CASE event.result = "Ping"    -> <<>>
    [] event.result = "Pong"    -> << <<"ping: pong from", event.peer>> >>
    [] event.result = "Timeout" -> << <<"ping: timeout to", event.peer>> >>
    [] event.result = "Other"   -> << <<"ping: failure with", event.peer>> >>

\* ------------------------------------------------------------------------
\* Address normaliser: parse_legacy_multiaddr and strip_peer_id
\* ------------------------------------------------------------------------

ParseError == [ok |-> FALSE, addr |-> <<>>]

\* Multiaddr::from_str on the parts from position i on: a protocol name,
\* then the value that protocol takes.
RECURSIVE ParseFrom(_, _)
ParseFrom(parts, i) ==
  IF i > Len(parts) THEN [ok |-> TRUE, addr |-> <<>>]
  ELSE IF parts[i] \notin {"tcp", "dns4", "p2p"} \/ i + 1 > Len(parts)
  THEN ParseError
  ELSE LET name  == parts[i]
           value == parts[i + 1]
           valid == CASE name = "tcp"  -> value = "4001"
                      [] name = "dns4" -> TRUE
                      [] name = "p2p"  -> value = "Qm"
           rest  == ParseFrom(parts, i + 2)
       IN  IF valid /\ rest.ok
           THEN [ok |-> TRUE,
                 addr |-> <<[proto |-> name, value |-> value]>> \o rest.addr]
           ELSE ParseError

\* Multiaddr::from_str: the text must start with '/'.
MultiaddrFromStr(parts) ==
  IF parts[1] # "" THEN ParseError ELSE ParseFrom(parts, 2)

\* strip_peer_id: pop the last component; drop it if it is a peer
\* identifier, push it back otherwise.
strip_peer_id(addr) ==
  IF addr = <<>> THEN [addr |-> addr, out |-> <<>>]
  ELSE LET last   == addr[Len(addr)]
           popped == SubSeq(addr, 1, Len(addr) - 1)
       IN  IF last.proto = "p2p"
           THEN [addr |-> popped,
                 out |-> << <<"removing peer id", last.value>> >>]
           ELSE [addr |-> Append(popped, last), out |-> <<>>]

\* Lines 107-111: every part that reads "ipfs" becomes "p2p".
Sanitize(parts) ==
  [i \in 1..Len(parts) |-> IF parts[i] = "ipfs" THEN "p2p" ELSE parts[i]]

\* parse_legacy_multiaddr: the address, or the parse error, and what was
\* printed.
parse_legacy_multiaddr(parts) ==
  LET parsed == MultiaddrFromStr(Sanitize(parts))
  IN  IF ~parsed.ok THEN [ok |-> FALSE, addr |-> <<>>, out |-> <<>>]
      ELSE LET s == strip_peer_id(parsed.addr)
           IN  [ok |-> TRUE, addr |-> s.addr, out |-> s.out]

\* ------------------------------------------------------------------------
\* Transport builder: get_psk and build_transport
\* ------------------------------------------------------------------------

\* Duration::from_secs(20): the bound on establishing a connection.
ConnectTimeoutSecs == 20

\* get_psk: the text of swarm.key; a missing file is no key, any other read
\* failure is an error.
get_psk(file) ==
  CASE file = "absent"     -> [ok |-> TRUE, text |-> "none"]
    [] file = "unreadable" -> [ok |-> FALSE, text |-> "none"]
    [] OTHER               -> [ok |-> TRUE, text |-> file]

\* Lines 122-124: the key main holds; a text that is no key is an error.
LoadPsk(file) ==
  LET r == get_psk(file)
  IN  IF ~r.ok THEN [ok |-> FALSE, psk |-> "unset"]
      ELSE IF r.text = "none" THEN [ok |-> TRUE, psk |-> "none"]
      ELSE IF r.text = "valid" THEN [ok |-> TRUE, psk |-> "some"]
      ELSE [ok |-> FALSE, psk |-> "unset"]

\* A transport whose private-network handshake comes after the upgrade.
build_transport_PnetLate(key) ==
  [stages  |-> <<"tcp", "upgrade">>
                 \o (IF key = "some" THEN <<"pnet">> ELSE <<>>)
                 \o <<"secio", "yamux">>,
   timeout |-> ConnectTimeoutSecs]

\* build_transport: the stages a connection goes through, each wrapping the
\* ones before it, and the bound on the whole negotiation.
build_transport(key) ==
  [stages  |-> <<"tcp">>
                 \o (IF key = "some" THEN <<"pnet">> ELSE <<>>)
                 \o <<"upgrade", "secio", "yamux">>,
   timeout |-> ConnectTimeoutSecs]

\* ------------------------------------------------------------------------
\* Session driver: the poll_fn closure of main
\* ------------------------------------------------------------------------

VARIABLES
  pc,            \* where the driver is: "stdin", "net", "yielded",
                 \* "panicked", "returned_ok", "returned_err"
  listening,     \* the flag of line 246
  listeners,     \* Swarm::listeners(&swarm)
  gs,            \* swarm.gossipsub
  out,           \* what the last step printed to stdout
  err,           \* what the last step printed to stderr
  cmd,           \* the command the last stdin line was read as
  stdinLast,     \* the last result of polling stdin in this turn
  netLast,       \* the last result of polling the swarm in this turn
  turnLog,       \* "L" per line applied, "N" per event printed, this turn
  nLines,        \* lines read so far
  nNet,          \* swarm events yielded so far
  nPrinted,      \* swarm events printed so far
  nInject,       \* sub-protocol events dispatched so far
  announceTurns, \* turns in which a listening address was printed
  netIdleSeen,   \* the swarm has reported not-ready at least once
  delivered,     \* bag of the messages printed as "Got message"
  text,          \* the address argument being normalised
  res,           \* the result of parse_legacy_multiaddr
  apc,           \* where the dial loop is: "parse", "dial", "dialed",
                 \* "abort", "done"
  curLine,       \* the line handed to handle_input_line on its own
  gsBefore,      \* the gossipsub state it was applied to
  cpc,           \* "read" before that application, "applied" after
  lastEvent,     \* the sub-protocol event the last step handed to
                 \* inject_event, if it handed one
  args,          \* the address arguments of the process
  argIdx,        \* the argument the dial loop is at
  dialed,        \* the addresses dial_addr has accepted, in order
  spc,           \* where startup is: "parse", "dial", "listen", "loop",
                 \* "abort"
  abortCause,    \* what aborted startup: "none", "parse", "dial", "listen"
  keyFile,       \* swarm.key on disk: "absent", "valid", "malformed",
                 \* "unreadable"
  psk,           \* the key main holds: "unset", "none", "some"
  transport,     \* the transport build_transport returned, or "none"
  conns,         \* the connections made with the transport
  tpc            \* where main is with the transport: "get_psk", "build",
                 \* "built", "abort"

driverVars ==
  <<pc, listening, listeners, gs, out, err, cmd, stdinLast, netLast, turnLog,
    nLines, nNet, nPrinted, nInject, announceTurns, netIdleSeen, delivered>>
addrVars == <<text, res, apc>>
cmdVars == <<curLine, gsBefore, cpc>>
startVars == <<args, argIdx, dialed, spc, abortCause>>
tptVars == <<keyFile, psk, transport, conns, tpc>>
vars == <<driverVars, lastEvent, addrVars, cmdVars, startVars, tptVars>>

\* The ways a connection attempt fails.
ConnFailures == {"dial error", "handshake failure", "timeout"}

\* No sub-protocol event was dispatched.
NoEvent == [proto |-> "none"]

\* Startup is over: no argument is left, the listener is started.
startIdle ==
  /\ args = <<>>
  /\ argIdx = 1
  /\ dialed = <<>>
  /\ spc = "loop"
  /\ abortCause = "none"

\* The transport was built without a key and has made no connection.
tptIdle ==
  /\ keyFile = "absent"
  /\ psk = "none"
  /\ transport = build_transport("none")
  /\ conns = <<>>
  /\ tpc = "built"

\* The state when block_on first polls the closure: "chat" subscribed,
\* listen_on called, no address reported yet, the flag false.
Init ==
  /\ pc = "stdin"
  /\ listening = FALSE
  /\ listeners = {}
  /\ gs = GossipsubInit
  /\ out = <<>>
  /\ err = <<>>
  /\ cmd = <<"none">>
  /\ stdinLast = "-"
  /\ netLast = "-"
  /\ turnLog = <<>>
  /\ nLines = 0
  /\ nNet = 0
  /\ nPrinted = 0
  /\ nInject = 0
  /\ announceTurns = 0
  /\ netIdleSeen = FALSE
  /\ delivered = EmptyBag
  /\ text = <<"">>
  /\ res = ParseError
  /\ apc = "done"
  /\ curLine = <<>>
  /\ gsBefore = GossipsubInit
  /\ cpc = "read"
  /\ lastEvent = NoEvent
  /\ startIdle
  /\ tptIdle

\* A driver whose stdin arm leaves the drain after one line.
StdinArm_OneLine(r) ==
  CASE r = "line"    -> "net"
    [] r = "eof"     -> "panicked"
    [] r = "err"     -> "returned_err"
    [] r = "pending" -> "net"

\* A driver that treats a closed stdin like an idle one.
StdinArm_EofBreaks(r) ==
  CASE r = "line"    -> "stdin"
    [] r = "eof"     -> "net"
    [] r = "err"     -> "returned_err"
    [] r = "pending" -> "net"

\* A driver that polls stdin again after stdin reported not-ready.
StdinArm_PendingSpins(r) ==
  CASE r = "line"    -> "stdin"
    [] r = "eof"     -> "panicked"
    [] r = "err"     -> "returned_err"
    [] r = "pending" -> "stdin"

\* Lines 251-255: where the driver goes after a poll of stdin.
StdinArm(r) ==
  CASE r = "line"    -> "stdin"
    [] r = "eof"     -> "panicked"
    [] r = "err"     -> "returned_err"
    [] r = "pending" -> "net"

\* A driver that keeps waiting after the swarm stream has ended.
NetArm_NoneYields(r, event) ==
  CASE r = "some"    -> [pc |-> "net", out |-> << <<"event", event>> >>]
    [] r = "none"    -> [pc |-> "yielded", out |-> <<>>]
    [] r = "pending" -> [pc |-> "yielded", out |-> <<>>]

\* A driver that suspends with a swarm event in hand.
NetArm_SomeYields(r, event) ==
  CASE r = "some"    -> [pc |-> "yielded", out |-> << <<"event", event>> >>]
    [] r = "none"    -> [pc |-> "returned_ok", out |-> <<>>]
    [] r = "pending" -> [pc |-> "yielded", out |-> <<>>]

\* A driver that returns when the swarm is merely not ready.
NetArm_PendingReturns(r, event) ==
  CASE r = "some"    -> [pc |-> "net", out |-> << <<"event", event>> >>]
    [] r = "none"    -> [pc |-> "returned_ok", out |-> <<>>]
    [] r = "pending" -> [pc |-> "returned_ok", out |-> <<>>]

\* A driver that gives up on the first swarm event.
NetArm_SomeReturns(r, event) ==
  CASE r = "some"    -> [pc |-> "returned_err", out |-> << <<"event", event>> >>]
    [] r = "none"    -> [pc |-> "returned_ok", out |-> <<>>]
    [] r = "pending" -> [pc |-> "yielded", out |-> <<>>]

\* Lines 258-269: what the driver prints and where it goes after a poll of
\* the swarm (the announcement of the not-ready arm is Announce).
NetArm(r, event) ==
  CASE r = "some"    -> [pc |-> "net", out |-> << <<"event", event>> >>]
    [] r = "none"    -> [pc |-> "returned_ok", out |-> <<>>]
    [] r = "pending" -> [pc |-> "yielded", out |-> <<>>]

RECURSIVE SetToSeq(_)
SetToSeq(S) ==
  IF S = {} THEN <<>>
  ELSE LET x == CHOOSE y \in S : TRUE IN <<x>> \o SetToSeq(S \ {x})

\* An announcement that forgets to set the flag.
Announce_NoFlag(flag, addrs) ==
  IF ~flag
  THEN [out |-> [i \in 1..Cardinality(addrs) |->
                   <<"Address", SetToSeq(addrs)[i]>>],
        listening |-> flag]
  ELSE [out |-> <<>>, listening |-> flag]

\* Lines 262-267: the addresses printed on a not-ready swarm, and the flag.
Announce(flag, addrs) ==
  IF ~flag
  THEN [out |-> [i \in 1..Cardinality(addrs) |->
                   <<"Address", SetToSeq(addrs)[i]>>],
        listening |-> (addrs # {})]
  ELSE [out |-> <<>>, listening |-> flag]

\* The messages printed as "Got message" by one step's output.
GotBag(printed) ==
  LET idx == { i \in 1..Len(printed) : printed[i][1] = "Got message" }
      msgs == { printed[i][2] : i \in idx }
  IN  [m \in msgs |-> Cardinality({ i \in idx : printed[i][2] = m })]

\* Line 252: stdin yields a line, handle_input_line is applied to it.
StdinLine ==
  /\ pc = "stdin"
  /\ nLines < MaxLines
  /\ \E line \in StdinLines :
       LET r == handle_input_line(gs, line)
       IN  /\ gs' = r.gs
           /\ out' = r.out
           /\ err' = r.err
           /\ cmd' = r.cmd
  /\ pc' = StdinArm("line")
  /\ stdinLast' = "line"
  /\ turnLog' = Append(turnLog, "L")
  /\ nLines' = nLines + 1
  /\ UNCHANGED <<listening, listeners, netLast, nNet, nPrinted, nInject,
                 announceTurns, netIdleSeen, delivered>>
  /\ lastEvent' = NoEvent
  /\ UNCHANGED <<addrVars, cmdVars, startVars, tptVars>>

\* Line 253: stdin has reached end-of-input, the closure panics.
StdinEof ==
  /\ pc = "stdin"
  /\ pc' = StdinArm("eof")
  /\ stdinLast' = "eof"
  /\ out' = <<>>
  /\ err' = IF pc' = "panicked" THEN <<"Stdin closed">> ELSE <<>>
  /\ UNCHANGED <<listening, listeners, gs, cmd, netLast, turnLog, nLines,
                 nNet, nPrinted, nInject, announceTurns, netIdleSeen,
                 delivered>>
  /\ lastEvent' = NoEvent
  /\ UNCHANGED <<addrVars, cmdVars, startVars, tptVars>>

\* Line 251: reading stdin failed, `?` returns the error from the closure.
StdinErr ==
  /\ pc = "stdin"
  /\ pc' = StdinArm("err")
  /\ stdinLast' = "err"
  /\ out' = <<>>
  /\ err' = <<>>
  /\ UNCHANGED <<listening, listeners, gs, cmd, netLast, turnLog, nLines,
                 nNet, nPrinted, nInject, announceTurns, netIdleSeen,
                 delivered>>
  /\ lastEvent' = NoEvent
  /\ UNCHANGED <<addrVars, cmdVars, startVars, tptVars>>

\* Line 254: stdin is not ready, the stdin drain ends.
StdinPending ==
  /\ pc = "stdin"
  /\ pc' = StdinArm("pending")
  /\ stdinLast' = "pending"
  /\ out' = <<>>
  /\ err' = <<>>
  /\ UNCHANGED <<listening, listeners, gs, cmd, netLast, turnLog, nLines,
                 nNet, nPrinted, nInject, announceTurns, netIdleSeen,
                 delivered>>
  /\ lastEvent' = NoEvent
  /\ UNCHANGED <<addrVars, cmdVars, startVars, tptVars>>

\* Inside swarm.poll_next: a listener reports a new address.
SwarmNewListenAddr ==
  /\ pc = "net"
  /\ \E a \in ListenAddrs \ listeners : listeners' = listeners \cup {a}
  /\ out' = <<>>
  /\ err' = <<>>
  /\ UNCHANGED <<pc, listening, gs, cmd, stdinLast, netLast, turnLog, nLines,
                 nNet, nPrinted, nInject, announceTurns, netIdleSeen,
                 delivered>>
  /\ lastEvent' = NoEvent
  /\ UNCHANGED <<addrVars, cmdVars, startVars, tptVars>>

\* Inside swarm.poll_next: gossipsub handles an inbound message and, when it
\* delivers it, inject_event(GossipsubEvent) runs.
SwarmGossipsub ==
  /\ pc = "net"
  /\ nInject < MaxInject
  /\ \E m \in InboundMsgs(gs) : \E p \in Peers :
       LET r == GossipsubReceive(gs, m)
           printed == IF r.deliver
                      THEN InjectGossipsub([type |-> "Message", peer |-> p,
                                            msg |-> m])
                      ELSE <<>>
       IN  /\ gs' = r.gs
           /\ out' = printed
           /\ delivered' = delivered (+) GotBag(printed)
           /\ lastEvent' = [proto |-> "gossipsub"]
  /\ err' = <<>>
  /\ nInject' = nInject + 1
  /\ UNCHANGED <<pc, listening, listeners, cmd, stdinLast, netLast, turnLog,
                 nLines, nNet, nPrinted, announceTurns, netIdleSeen>>
  /\ UNCHANGED <<addrVars, cmdVars, startVars, tptVars>>

\* Inside swarm.poll_next: a peer's subscription change reaches
\* inject_event(GossipsubEvent), which ignores it.
SwarmGossipsubOther ==
  /\ pc = "net"
  /\ nInject < MaxInject
  /\ \E p \in Peers : \E t \in RemoteTopics :
       LET printed == InjectGossipsub([type |-> "Subscribed", peer |-> p,
                                       topic |-> t])
       IN  /\ out' = printed
           /\ lastEvent' = [proto |-> "gossipsub"]
           /\ delivered' = delivered (+) GotBag(printed)
  /\ err' = <<>>
  /\ nInject' = nInject + 1
  /\ UNCHANGED <<pc, listening, listeners, gs, cmd, stdinLast, netLast,
                 turnLog, nLines, nNet, nPrinted, announceTurns, netIdleSeen>>
  /\ UNCHANGED <<addrVars, cmdVars, startVars, tptVars>>

\* Inside swarm.poll_next: inject_event(PingEvent) runs.
SwarmPing ==
  /\ pc = "net"
  /\ nInject < MaxInject
  /\ \E e \in PingEvents :
       /\ out' = InjectPing(e)
       /\ lastEvent' = [proto |-> "ping", peer |-> e.peer,
                        result |-> e.result]
  /\ err' = <<>>
  /\ nInject' = nInject + 1
  /\ UNCHANGED <<pc, listening, listeners, gs, cmd, stdinLast, netLast,
                 turnLog, nLines, nNet, nPrinted, announceTurns, netIdleSeen,
                 delivered>>
  /\ UNCHANGED <<addrVars, cmdVars, startVars, tptVars>>

\* Inside swarm.poll_next: inject_event(IdentifyEvent) runs.
SwarmIdentify ==
  /\ pc = "net"
  /\ nInject < MaxInject
  /\ \E p \in Peers :
       /\ out' = InjectIdentify([peer |-> p])
       /\ lastEvent' = [proto |-> "identify"]
  /\ err' = <<>>
  /\ nInject' = nInject + 1
  /\ UNCHANGED <<pc, listening, listeners, gs, cmd, stdinLast, netLast,
                 turnLog, nLines, nNet, nPrinted, announceTurns, netIdleSeen,
                 delivered>>
  /\ UNCHANGED <<addrVars, cmdVars, startVars, tptVars>>

\* Inside swarm.poll_next: a connection attempt fails (dial error, handshake
\* failure, establishment timeout); the swarm handles it and logs it.
SwarmConnFailure ==
  /\ pc = "net"
  /\ nInject < MaxInject
  /\ \E k \in ConnFailures : \E p \in Peers :
       lastEvent' = [proto |-> "conn", kind |-> k, peer |-> p]
  /\ out' = <<>>
  /\ err' = <<>>
  /\ nInject' = nInject + 1
  /\ UNCHANGED <<pc, listening, listeners, gs, cmd, stdinLast, netLast,
                 turnLog, nLines, nNet, nPrinted, announceTurns, netIdleSeen,
                 delivered>>
  /\ UNCHANGED <<addrVars, cmdVars, startVars, tptVars>>

\* Line 259: the swarm yields an event, which is printed.
NetEvent ==
  /\ pc = "net"
  /\ nNet < MaxNetEvents
  /\ pc' = NetArm("some", "()").pc
  /\ netLast' = "some"
  /\ nNet' = nNet + 1
  /\ out' = NetArm("some", "()").out
  /\ nPrinted' = nPrinted + Len(out')
  /\ turnLog' = Append(turnLog, "N")
  /\ err' = <<>>
  /\ UNCHANGED <<listening, listeners, gs, cmd, stdinLast, nLines, nInject,
                 announceTurns, netIdleSeen, delivered>>
  /\ lastEvent' = NoEvent
  /\ UNCHANGED <<addrVars, cmdVars, startVars, tptVars>>

\* Line 260: the swarm stream has ended, the closure returns Ready(Ok(())).
NetNone ==
  /\ pc = "net"
  /\ pc' = NetArm("none", "()").pc
  /\ netLast' = "none"
  /\ out' = NetArm("none", "()").out
  /\ err' = <<>>
  /\ UNCHANGED <<listening, listeners, gs, cmd, stdinLast, turnLog, nLines,
                 nNet, nPrinted, nInject, announceTurns, netIdleSeen,
                 delivered>>
  /\ lastEvent' = NoEvent
  /\ UNCHANGED <<addrVars, cmdVars, startVars, tptVars>>

\* Lines 261-272: the swarm is not ready; the addresses are announced if they
\* have not been, and the closure returns Pending.
NetPending ==
  /\ pc = "net"
  /\ pc' = NetArm("pending", "()").pc
  /\ netLast' = "pending"
  /\ netIdleSeen' = TRUE
  /\ LET a == Announce(listening, listeners)
     IN  /\ out' = NetArm("pending", "()").out \o a.out
         /\ listening' = a.listening
         /\ announceTurns' = announceTurns + (IF a.out # <<>> THEN 1 ELSE 0)
  /\ err' = <<>>
  /\ UNCHANGED <<listeners, gs, cmd, stdinLast, turnLog, nLines, nNet,
                 nPrinted, nInject, delivered>>
  /\ lastEvent' = NoEvent
  /\ UNCHANGED <<addrVars, cmdVars, startVars, tptVars>>

\* The task is woken and block_on polls the closure again: a new turn.
Wake ==
  /\ pc = "yielded"
  /\ pc' = "stdin"
  /\ stdinLast' = "-"
  /\ netLast' = "-"
  /\ turnLog' = <<>>
  /\ out' = <<>>
  /\ err' = <<>>
  /\ UNCHANGED <<listening, listeners, gs, cmd, nLines, nNet, nPrinted,
                 nInject, announceTurns, netIdleSeen, delivered>>
  /\ lastEvent' = NoEvent
  /\ UNCHANGED <<addrVars, cmdVars, startVars, tptVars>>

Next ==
  \/ StdinLine
  \/ StdinEof
  \/ StdinErr
  \/ StdinPending
  \/ SwarmNewListenAddr
  \/ SwarmGossipsub
  \/ SwarmGossipsubOther
  \/ SwarmPing
  \/ SwarmIdentify
  \/ SwarmConnFailure
  \/ NetEvent
  \/ NetNone
  \/ NetPending
  \/ Wake

Spec == Init /\ [][Next]_vars

\* One poll of stdin (line 251) and one poll of the swarm (line 258).
StdinPoll == StdinLine \/ StdinEof \/ StdinErr \/ StdinPending
NetPoll == NetEvent \/ NetNone \/ NetPending

\* The driver's own steps: the polls of lines 251 and 258, each taken with
\* whatever the swarm does inside it, and the wake-up of the task.
NextLive ==
  \/ StdinPoll
  \/ SwarmNewListenAddr
  \/ NetPoll
  \/ Wake

\* The closure keeps running: a poll it has reached returns. stdin has
\* finitely many lines ready (MaxLines). Nothing is assumed of the waker.
SpecLive ==
  Init /\ [][NextLive]_vars /\ WF_vars(StdinPoll) /\ WF_vars(NetPoll)

\* ------------------------------------------------------------------------
\* The dial loop of main, for one address argument
\* ------------------------------------------------------------------------

driverIdle ==
  /\ listening = FALSE
  /\ listeners = {}
  /\ gs = GossipsubInit
  /\ out = <<>>
  /\ err = <<>>
  /\ cmd = <<"none">>
  /\ stdinLast = "-"
  /\ netLast = "-"
  /\ turnLog = <<>>
  /\ nLines = 0
  /\ nNet = 0
  /\ nPrinted = 0
  /\ nInject = 0
  /\ announceTurns = 0
  /\ netIdleSeen = FALSE
  /\ delivered = EmptyBag

\* The swarm is built and "chat" subscribed; the argument is about to be
\* normalised.
InitAddr ==
  /\ pc = "startup"
  /\ driverIdle
  /\ text \in Texts
  /\ res = ParseError
  /\ apc = "parse"
  /\ curLine = <<>>
  /\ gsBefore = GossipsubInit
  /\ cpc = "read"
  /\ lastEvent = NoEvent
  /\ startIdle
  /\ tptIdle

\* Line 234: the argument is normalised; a parse error aborts startup.
ParseArg ==
  /\ apc = "parse"
  /\ LET r == parse_legacy_multiaddr(text)
     IN  /\ res' = [ok |-> r.ok, addr |-> r.addr]
         /\ out' = r.out
         /\ apc' = IF r.ok THEN "dial" ELSE "abort"
  /\ UNCHANGED <<pc, listening, listeners, gs, err, cmd, stdinLast, netLast,
                 turnLog, nLines, nNet, nPrinted, nInject, announceTurns,
                 netIdleSeen, delivered, text>>
  /\ UNCHANGED <<lastEvent, cmdVars, startVars, tptVars>>

\* Lines 235-236: the address is handed to dial_addr, which accepts it.
DialOk ==
  /\ apc = "dial"
  /\ apc' = "dialed"
  /\ out' = << <<"Dialed", text>> >>
  /\ UNCHANGED <<pc, listening, listeners, gs, err, cmd, stdinLast, netLast,
                 turnLog, nLines, nNet, nPrinted, nInject, announceTurns,
                 netIdleSeen, delivered, text, res>>
  /\ UNCHANGED <<lastEvent, cmdVars, startVars, tptVars>>

\* Line 235: dial_addr refuses the address, `?` aborts startup.
DialErr ==
  /\ apc = "dial"
  /\ apc' = "abort"
  /\ out' = <<>>
  /\ UNCHANGED <<pc, listening, listeners, gs, err, cmd, stdinLast, netLast,
                 turnLog, nLines, nNet, nPrinted, nInject, announceTurns,
                 netIdleSeen, delivered, text, res>>
  /\ UNCHANGED <<lastEvent, cmdVars, startVars, tptVars>>

NextAddr ==
  \/ ParseArg
  \/ DialOk
  \/ DialErr

SpecAddr == InitAddr /\ [][NextAddr]_vars

\* ------------------------------------------------------------------------
\* handle_input_line on its own, over every line and subscription state
\* ------------------------------------------------------------------------

\* Gossipsub states the interpreter can meet: "chat" is always subscribed.
CmdStates ==
  { [mesh |-> {"chat"} \cup S, received |-> P, published |-> P] :
      S \in SUBSET {"t", ""},
      P \in { {}, {[src |-> "local", topic |-> "t", data |-> "chat"]} } }

InitCmd ==
  /\ pc = "stdin"
  /\ listening = FALSE
  /\ listeners = {}
  /\ gs \in CmdStates
  /\ out = <<>>
  /\ err = <<>>
  /\ cmd = <<"none">>
  /\ stdinLast = "-"
  /\ netLast = "-"
  /\ turnLog = <<>>
  /\ nLines = 0
  /\ nNet = 0
  /\ nPrinted = 0
  /\ nInject = 0
  /\ announceTurns = 0
  /\ netIdleSeen = FALSE
  /\ delivered = EmptyBag
  /\ text = <<"">>
  /\ res = ParseError
  /\ apc = "done"
  /\ curLine \in Lines
  /\ gsBefore = gs
  /\ cpc = "read"
  /\ lastEvent = NoEvent
  /\ startIdle
  /\ tptIdle

\* handle_input_line(&mut swarm.gossipsub, line).
ApplyLine ==
  /\ cpc = "read"
  /\ LET r == handle_input_line(gs, curLine)
     IN  /\ gs' = r.gs
         /\ out' = r.out
         /\ err' = r.err
         /\ cmd' = r.cmd
  /\ cpc' = "applied"
  /\ UNCHANGED <<pc, listening, listeners, stdinLast, netLast, turnLog,
                 nLines, nNet, nPrinted, nInject, announceTurns, netIdleSeen,
                 delivered, curLine, gsBefore>>
  /\ UNCHANGED <<lastEvent, addrVars, startVars, tptVars>>

NextCmd == ApplyLine

SpecCmd == InitCmd /\ [][NextCmd]_vars

\* ------------------------------------------------------------------------
\* main from the dial loop to the event loop, for a list of arguments
\* ------------------------------------------------------------------------

\* Argument texts: two that parse, one of them with a peer identifier, a
\* short one that parses, and one that does not parse.
StartTexts ==
  { <<"", "dns4", "Qm", "tcp", "4001">>,
    <<"", "dns4", "Qm", "ipfs", "Qm">>,
    <<"", "tcp", "4001">>,
    <<"tcp">> }

ArgLists == UNION { [1..n -> StartTexts] : n \in 0..MaxArgs }

\* The swarm is built; the dial loop is about to take its first argument.
InitStart ==
  /\ pc = "startup"
  /\ driverIdle
  /\ lastEvent = NoEvent
  /\ text = <<"">>
  /\ res = ParseError
  /\ apc = "done"
  /\ curLine = <<>>
  /\ gsBefore = GossipsubInit
  /\ cpc = "read"
  /\ args \in ArgLists
  /\ argIdx = 1
  /\ dialed = <<>>
  /\ spc = IF args = <<>> THEN "listen" ELSE "parse"
  /\ abortCause = "none"
  /\ tptIdle

\* Line 234: the next argument is normalised; a parse error ends main.
StartParse ==
  /\ spc = "parse"
  /\ LET r == parse_legacy_multiaddr(args[argIdx])
     IN  /\ text' = args[argIdx]
         /\ res' = [ok |-> r.ok, addr |-> r.addr]
         /\ out' = r.out
         /\ spc' = IF r.ok THEN "dial" ELSE "abort"
         /\ abortCause' = IF r.ok THEN "none" ELSE "parse"
  /\ UNCHANGED <<pc, listening, listeners, gs, err, cmd, stdinLast, netLast,
                 turnLog, nLines, nNet, nPrinted, nInject, announceTurns,
                 netIdleSeen, delivered, apc, args, argIdx, dialed>>
  /\ UNCHANGED <<lastEvent, cmdVars, tptVars>>

\* Lines 235-236: dial_addr accepts the address; the loop goes on.
StartDialOk ==
  /\ spc = "dial"
  /\ dialed' = Append(dialed, res.addr)
  /\ out' = << <<"Dialed", text>> >>
  /\ argIdx' = argIdx + 1
  /\ spc' = IF argIdx' > Len(args) THEN "listen" ELSE "parse"
  /\ UNCHANGED <<pc, listening, listeners, gs, err, cmd, stdinLast, netLast,
                 turnLog, nLines, nNet, nPrinted, nInject, announceTurns,
                 netIdleSeen, delivered, text, res, apc, args, abortCause>>
  /\ UNCHANGED <<lastEvent, cmdVars, tptVars>>

\* Line 235: dial_addr returns an error, `?` returns it from main.
StartDialErr ==
  /\ spc = "dial"
  /\ spc' = "abort"
  /\ abortCause' = "dial"
  /\ out' = <<>>
  /\ UNCHANGED <<pc, listening, listeners, gs, err, cmd, stdinLast, netLast,
                 turnLog, nLines, nNet, nPrinted, nInject, announceTurns,
                 netIdleSeen, delivered, text, res, apc, args, argIdx,
                 dialed>>
  /\ UNCHANGED <<lastEvent, cmdVars, tptVars>>

\* Lines 243-247: listen_on succeeds and block_on polls the closure.
StartListenOk ==
  /\ spc = "listen"
  /\ spc' = "loop"
  /\ pc' = "stdin"
  /\ out' = <<>>
  /\ UNCHANGED <<listening, listeners, gs, err, cmd, stdinLast, netLast,
                 turnLog, nLines, nNet, nPrinted, nInject, announceTurns,
                 netIdleSeen, delivered, text, res, apc, args, argIdx,
                 dialed, abortCause>>
  /\ UNCHANGED <<lastEvent, cmdVars, tptVars>>

\* Line 243: listen_on returns an error, `?` returns it from main.
StartListenErr ==
  /\ spc = "listen"
  /\ spc' = "abort"
  /\ abortCause' = "listen"
  /\ out' = <<>>
  /\ UNCHANGED <<pc, listening, listeners, gs, err, cmd, stdinLast, netLast,
                 turnLog, nLines, nNet, nPrinted, nInject, announceTurns,
                 netIdleSeen, delivered, text, res, apc, args, argIdx,
                 dialed>>
  /\ UNCHANGED <<lastEvent, cmdVars, tptVars>>

NextStart ==
  \/ StartParse
  \/ StartDialOk
  \/ StartDialErr
  \/ StartListenOk
  \/ StartListenErr

SpecStart == InitStart /\ [][NextStart]_vars

AllParse(list) == \A i \in 1..Len(list) : parse_legacy_multiaddr(list[i]).ok

\* C12: with arguments that all parse, startup is never ended by a dial
\* failure: it ends, if at all, only because the listener could not be
\* started.
C12_DialFailureIsNotFatal ==
  AllParse(args) => abortCause # "dial"

\* ------------------------------------------------------------------------
\* main up to the transport, and the connections made with it
\* ------------------------------------------------------------------------

KeyFiles == {"absent", "valid", "malformed", "unreadable"}

\* main is about to read the key file.
InitTransport ==
  /\ pc = "startup"
  /\ driverIdle
  /\ lastEvent = NoEvent
  /\ text = <<"">>
  /\ res = ParseError
  /\ apc = "done"
  /\ curLine = <<>>
  /\ gsBefore = GossipsubInit
  /\ cpc = "read"
  /\ args = <<>>
  /\ argIdx = 1
  /\ dialed = <<>>
  /\ spc = "parse"
  /\ abortCause = "none"
  /\ keyFile \in KeyFiles
  /\ psk = "unset"
  /\ transport = "none"
  /\ conns = <<>>
  /\ tpc = "get_psk"

\* Lines 120-124: the key is loaded; a read error or a malformed key ends
\* main.
LoadKey ==
  /\ tpc = "get_psk"
  /\ LET r == LoadPsk(keyFile)
     IN  /\ psk' = r.psk
         /\ tpc' = IF r.ok THEN "build" ELSE "abort"
  /\ UNCHANGED <<keyFile, transport, conns>>
  /\ UNCHANGED <<driverVars, lastEvent, addrVars, cmdVars, startVars>>

\* Line 135: the transport is built from the key main holds.
BuildTransport ==
  /\ tpc = "build"
  /\ transport' = build_transport(psk)
  /\ tpc' = "built"
  /\ UNCHANGED <<keyFile, psk, conns>>
  /\ UNCHANGED <<driverVars, lastEvent, addrVars, cmdVars, startVars>>

\* A connection is dialed or accepted through the transport.
ConnOpen ==
  /\ tpc = "built"
  /\ Len(conns) < MaxConns
  /\ conns' = Append(conns, [done |-> <<>>, status |-> "negotiating"])
  /\ UNCHANGED <<keyFile, psk, transport, tpc>>
  /\ UNCHANGED <<driverVars, lastEvent, addrVars, cmdVars, startVars>>

\* The next stage of a connection's negotiation completes.
ConnStage ==
  /\ \E i \in 1..Len(conns) :
       /\ conns[i].status = "negotiating"
       /\ LET d == Append(conns[i].done,
                          transport.stages[Len(conns[i].done) + 1])
          IN  conns' = [conns EXCEPT ![i] =
                 [done |-> d,
                  status |-> IF Len(d) = Len(transport.stages)
                             THEN "established" ELSE "negotiating"]]
  /\ UNCHANGED <<keyFile, psk, transport, tpc>>
  /\ UNCHANGED <<driverVars, lastEvent, addrVars, cmdVars, startVars>>

\* The stage a connection is at fails: the attempt fails, main goes on.
ConnFail ==
  /\ \E i \in 1..Len(conns) :
       /\ conns[i].status = "negotiating"
       /\ conns' = [conns EXCEPT ![i].status = "failed"]
  /\ UNCHANGED <<keyFile, psk, transport, tpc>>
  /\ UNCHANGED <<driverVars, lastEvent, addrVars, cmdVars, startVars>>

\* The negotiation of a connection exceeds the transport's timeout.
ConnTimeout ==
  /\ \E i \in 1..Len(conns) :
       /\ conns[i].status = "negotiating"
       /\ conns' = [conns EXCEPT ![i].status = "timeout"]
  /\ UNCHANGED <<keyFile, psk, transport, tpc>>
  /\ UNCHANGED <<driverVars, lastEvent, addrVars, cmdVars, startVars>>

NextTransport ==
  \/ LoadKey
  \/ BuildTransport
  \/ ConnOpen
  \/ ConnStage
  \/ ConnFail
  \/ ConnTimeout

SpecTransport == InitTransport /\ [][NextTransport]_vars

Range(f) == { f[i] : i \in DOMAIN f }

\* C11: the private-network handshake is a stage of the transport exactly
\* when main held a key, which is exactly when the key file held one; a
\* connection performs it only then, and then before the upgrade, the
\* authentication and the multiplexing; with no key file the transport is
\* built and no connection performs it.
C11_PnetIffKey ==
  /\ tpc = "built" =>
       /\ ("pnet" \in Range(transport.stages)) <=> (psk = "some")
       /\ (psk = "some") <=> (keyFile = "valid")
  /\ \A i \in 1..Len(conns) :
       LET d == conns[i].done
       IN  /\ "pnet" \in Range(d) => keyFile = "valid"
           /\ keyFile = "valid" =>
                \A j \in 1..Len(d) :
                  d[j] \in {"upgrade", "secio", "yamux"} =>
                    \E k \in 1..(j - 1) : d[k] = "pnet"
  /\ keyFile = "absent" => tpc # "abort"

\* With a key, one connection is established and another one has just
\* completed the private-network handshake.
C11_Witness ==
  /\ keyFile = "valid"
  /\ Len(conns) = 2
  /\ conns[1].status = "established"
  /\ conns[2].done = <<"tcp", "pnet">>

\* ------------------------------------------------------------------------
\* Properties of the driver loop
\* ------------------------------------------------------------------------

\* C1: within a turn the swarm is polled only after stdin has reported
\* not-ready in that turn, so every line stdin had ready was applied first,
\* and no line is applied after a network event of the same turn.
C1_StdinDrainedBeforeNet ==
  /\ pc \in {"net", "yielded", "returned_ok"} => stdinLast = "pending"
  /\ netLast # "-" => stdinLast = "pending"
  /\ \A i, j \in 1..Len(turnLog) :
       i < j => ~(turnLog[i] = "N" /\ turnLog[j] = "L")

\* A turn that applied a line and then printed a network event.
C1_Witness ==
  /\ Len(turnLog) >= 2
  /\ turnLog[1] = "L"
  /\ turnLog[Len(turnLog)] = "N"

\* C2: listening addresses are printed in at most one turn of the run, and
\* not before the swarm has reported not-ready.
C2_AnnouncedAtMostOnce ==
  /\ announceTurns <= 1
  /\ announceTurns >= 1 => netIdleSeen

\* An idle turn after the announcement, which prints no address.
C2_Witness ==
  /\ announceTurns = 1
  /\ listening
  /\ netLast = "pending"
  /\ out = <<>>

\* C3: when stdin reports end-of-input the closure panics in that turn (it
\* does not return), and nothing is processed afterwards.
C3_EofIsFatal ==
  stdinLast = "eof" => (pc = "panicked" /\ ~ENABLED Next)

\* End-of-input met after a line of the same turn.
C3_Witness ==
  /\ pc = "panicked"
  /\ turnLog = <<"L">>

\* C4: when the swarm stream reports completion in a turn whose stdin drain
\* ended not-ready, the closure returns Ok, every event the stream yielded
\* before having been printed.
C4_NetDoneReturnsOk ==
  (netLast = "none" /\ stdinLast = "pending") =>
    (pc = "returned_ok" /\ nPrinted = nNet)

\* Completion met after an event of the same turn.
C4_Witness ==
  /\ pc = "returned_ok"
  /\ turnLog = <<"N">>
  /\ nPrinted = 1

\* ------------------------------------------------------------------------
\* Properties of the command interpreter and of message delivery
\* ------------------------------------------------------------------------

\* The step applied a stdin line.
LineApplied == nLines' = nLines + 1

\* C5: a SUB of a topic that is already subscribed returns false, is reported
\* as a failure and leaves the subscription set as it was; and every message
\* printed as received was printed exactly once, a message that arrives for
\* the first time on a subscribed topic being printed by that step.
C5_ResubscribeIsIdempotent ==
  /\ [](\A m \in BagToSet(delivered) : CopiesIn(m, delivered) = 1)
  /\ [][(LineApplied /\ cmd'[1] = "SUB" /\ cmd'[2] \in gs.mesh) =>
          /\ cmd'[3] = FALSE
          /\ out' = << <<"Failed to subscribe to topic">> >>
          /\ gs'.mesh = gs.mesh]_vars
  /\ [][\A m \in gs'.received \ gs.received :
          (m.src # "local" /\ m.topic \in gs.mesh) =>
            (CopiesIn(m, delivered') = 1 /\ out' = << <<"Got message", m>> >>)
       ]_vars

\* "t" was subscribed, subscribed again (refused), and a message on "t" was
\* then received, and received a second time.
C5_Witness ==
  /\ cmd = <<"SUB", "t", FALSE>>
  /\ nInject = 2
  /\ \E m \in BagToSet(delivered) : m.topic = "t"
  /\ out = <<>>
  /\ gs.received = BagToSet(delivered)

\* C7: a PUB on a topic that is not subscribed leaves the driver in its
\* stdin drain, leaves the subscription set as it was and prints nothing; and
\* no message this node published is ever printed as received.
C7_PublishUnsubscribed ==
  /\ [](\A m \in BagToSet(delivered) : m \notin gs.published)
  /\ [][(LineApplied /\ cmd'[1] = "PUB" /\ cmd'[2] \notin gs.mesh) =>
          /\ pc' = "stdin"
          /\ gs'.mesh = gs.mesh
          /\ out' = <<>>
          /\ delivered' = delivered]_vars

\* "t" was published to while unsubscribed, then subscribed, and the swarm
\* has since handled two inbound messages without printing the published one.
C7_Witness ==
  /\ [src |-> "local", topic |-> "t", data |-> "chat"] \in gs.published
  /\ cmd = <<"SUB", "t", TRUE>>
  /\ nInject = 2
  /\ delivered = EmptyBag

\* The non-empty tokens of a line: the line read as whitespace-separated.
WsTokens(l) == SelectSeq(Split(l), LAMBDA t : t # "")

\* The lines C6 is about.
UsageLine(l) ==
  LET w == WsTokens(l)
  IN  \/ w = <<>>
      \/ w[1] \notin {"SUB", "PUB"}
      \/ w[1] = "SUB" /\ Len(w) < 2
      \/ w[1] = "PUB" /\ Len(w) < 3

\* C6: a line that, read as whitespace-separated tokens, lacks the topic or
\* the message, or starts with another word, gets a usage diagnostic and
\* changes neither the subscriptions nor the published messages.
C6_UsageErrorsChangeNothing ==
  (cpc = "applied" /\ UsageLine(curLine)) =>
    /\ err # <<>>
    /\ gs.mesh = gsBefore.mesh
    /\ gs.published = gsBefore.published

\* ------------------------------------------------------------------------
\* Properties of the address normaliser
\* ------------------------------------------------------------------------

\* The components the text denotes: "ipfs" in protocol position names the
\* peer-identifier protocol, every value is taken as written.
RECURSIVE ComponentsFrom(_, _)
ComponentsFrom(parts, i) ==
  IF i > Len(parts) THEN [ok |-> TRUE, addr |-> <<>>]
  ELSE IF parts[i] \notin {"tcp", "dns4", "p2p", "ipfs"} \/ i + 1 > Len(parts)
  THEN ParseError
  ELSE LET name  == IF parts[i] = "ipfs" THEN "p2p" ELSE parts[i]
           value == parts[i + 1]
           valid == CASE name = "tcp"  -> value = "4001"
                      [] name = "dns4" -> TRUE
                      [] name = "p2p"  -> value = "Qm"
           rest  == ComponentsFrom(parts, i + 2)
       IN  IF valid /\ rest.ok
           THEN [ok |-> TRUE,
                 addr |-> <<[proto |-> name, value |-> value]>> \o rest.addr]
           ELSE ParseError

Components(parts) ==
  IF parts[1] # "" THEN ParseError ELSE ComponentsFrom(parts, 2)

EndsWithPeerId(addr) == addr # <<>> /\ addr[Len(addr)].proto = "p2p"

\* C8: for a parseable text whose last component is a peer identifier, the
\* result is the text's components without that last one, each of the others
\* with its protocol and value as in the text.
C8_StripsOnlyTheSuffix ==
  (apc # "parse" /\ Components(text).ok /\ EndsWithPeerId(Components(text).addr))
    => /\ res.ok
       /\ res.addr = SubSeq(Components(text).addr, 1,
                            Len(Components(text).addr) - 1)

\* C9: for a parseable text whose last component is not a peer identifier,
\* the result has the text's components, in order, with their values.
C9_NoSuffixIsNoOp ==
  (apc # "parse" /\ Components(text).ok /\ ~EndsWithPeerId(Components(text).addr))
    => /\ res.ok
       /\ res.addr = Components(text).addr

\* C10: an address handed to dial_addr never ends with a peer identifier.
C10_DialedAddressHasNoPeerId ==
  apc \in {"dial", "dialed"} => ~EndsWithPeerId(res.addr)

\* ------------------------------------------------------------------------
\* Failure events, suspension and the ends of the driver loop
\* ------------------------------------------------------------------------

PingFailed == lastEvent.proto = "ping" /\ lastEvent.result \in {"Timeout", "Other"}

C15_YieldsOnlyWhenBothIdle ==
  pc = "yielded" => stdinLast = "pending" /\ netLast = "pending"

\* The driver yields at the end of a turn that applied a line and printed an
\* event.
C15_Witness ==
  /\ pc = "yielded"
  /\ turnLog = <<"L", "N">>

Ended == pc \in {"panicked", "returned_ok", "returned_err"}

\* C16 as stated: the loop has ended only on stdin's end-of-input or on the
\* swarm's completion.
C16_OnlyTwoExits ==
  Ended => (stdinLast = "eof" \/ netLast = "none")

\* C16, amended: the loop ends in exactly three ways: it panics exactly on
\* stdin's end-of-input, returns the error exactly when reading stdin
\* failed, and returns Ok exactly when the swarm stream completed; after a
\* line, an event or a not-ready result of either source it has not ended.
C16_ThreeExits ==
  /\ pc \in {"stdin", "net", "yielded", "panicked", "returned_ok",
             "returned_err"}
  /\ (pc = "panicked") <=> (stdinLast = "eof")
  /\ (pc = "returned_err") <=> (stdinLast = "err")
  /\ (pc = "returned_ok") <=> (netLast = "none")
  /\ Ended => ~ENABLED Next

\* Reading stdin fails after a line was applied and a turn was completed.
C16_Witness ==
  /\ pc = "returned_err"
  /\ stdinLast = "err"
  /\ nLines = 1
  /\ netIdleSeen

\* What inject_event(PingEvent) is to print for an event.
PingReport(e) ==
  CASE e.result = "Pong"    -> << <<"ping: pong from", e.peer>> >>
    [] e.result = "Timeout" -> << <<"ping: timeout to", e.peer>> >>
    [] e.result = "Other"   -> << <<"ping: failure with", e.peer>> >>
    [] e.result = "Ping"    -> <<>>

\* C17: the step that dispatches a ping event prints exactly the one report
\* of that event's kind, naming its peer, and nothing else; a ping success
\* with a round-trip time prints nothing and changes no state of the node.
C17_OneReportPerPingEvent ==
  [][lastEvent'.proto = "ping" =>
       /\ out' = PingReport(lastEvent')
       /\ err' = <<>>
       /\ UNCHANGED <<pc, listening, listeners, gs, cmd, delivered, nPrinted,
                      announceTurns>>]_vars

\* Two ping events were dispatched, the second one a timeout.
C17_Witness ==
  /\ lastEvent.proto = "ping"
  /\ lastEvent.result = "Timeout"
  /\ out = << <<"ping: timeout to", lastEvent.peer>> >>
  /\ nInject = 2

\* ------------------------------------------------------------------------
\* The announcement of the listening addresses
\* ------------------------------------------------------------------------

\* The addresses printed by one step's output.
AddressesIn(printed) ==
  { printed[i][2] : i \in { j \in 1..Len(printed) : printed[j][1] = "Address" } }

\* The step in which the swarm reports not-ready and the closure yields.
NetIdleStep == pc = "net" /\ pc' = "yielded"

C18_SubscriptionsOnlyGrow ==
  /\ []("chat" \in gs.mesh)
  /\ [][/\ gs.mesh \subseteq gs'.mesh
        /\ (LineApplied /\ cmd'[1] = "SUB" /\ cmd'[2] = "chat") =>
             /\ out' = << <<"Failed to subscribe to topic">> >>
             /\ err' = <<>>
             /\ gs'.mesh = gs.mesh]_vars

\* SUB chat was refused after another topic had been subscribed.
C18_Witness ==
  /\ cmd = <<"SUB", "chat", FALSE>>
  /\ out = << <<"Failed to subscribe to topic">> >>
  /\ gs.mesh = {"chat", "t"}
  /\ nLines = 2

\* ------------------------------------------------------------------------
\* Precedence of the two exits, and progress of the network drain
\* ------------------------------------------------------------------------

\* C19: in a turn in which stdin reported end-of-input the closure has
\* panicked without polling the swarm, so it has not returned Ok whatever
\* the swarm had to report; it has returned Ok only in a turn whose stdin
\* drain ended not-ready and whose swarm poll reported completion.
C19_EofWinsOverCompletion ==
  /\ stdinLast = "eof" => (pc = "panicked" /\ netLast = "-")
  /\ pc = "returned_ok" => (stdinLast = "pending" /\ netLast = "none")

\* End-of-input met in a later turn, the swarm having yielded an event and
\* reported not-ready before.
C19_Witness ==
  /\ stdinLast = "eof"
  /\ pc = "panicked"
  /\ netIdleSeen
  /\ nNet = 1

\* C20: a turn that has begun polls the swarm, unless stdin ends the loop
\* first, and a poll of the swarm that yields an event prints it; the stdin
\* drain ends on a not-ready result and only on it: a step that reads a line
\* stays in the stdin drain and does nothing of the network drain, and
\* while the driver is in the stdin drain the turn has not polled the swarm.
C20_NetDrainFollowsStdinDrain ==
  /\ (pc = "stdin") ~> (netLast # "-" \/ pc \in {"panicked", "returned_err"})
  /\ [](pc = "stdin" => (netLast = "-" /\ turnLog \in Seq({"L"})))
  /\ [][/\ nNet' = nNet + 1 =>
             (nPrinted' = nPrinted + 1 /\ out' = << <<"event", "()">> >>)
        /\ (pc = "stdin" /\ stdinLast' = "pending") => pc' = "net"
        /\ (pc = "stdin" /\ stdinLast' = "line") =>
             /\ pc' = "stdin"
             /\ UNCHANGED <<netLast, nNet, nPrinted, announceTurns,
                            listening, listeners>>]_vars

\* An event is printed in a turn whose stdin drain applied every line stdin
\* had.
C20_Witness ==
  /\ turnLog = <<"L", "L", "N">>
  /\ nPrinted = 1
  /\ netLast = "some"

====
